---- MODULE Spec2Model ----
(***************************************************************************)
(* A model of the Streamlit ETF dashboard pages.                           *)
(*                                                                         *)
(*   - src/app/pages/trend.py      price / volume trend chart: reads the   *)
(*     daily OHLCV rows of one ETF, resamples them to weekly or monthly    *)
(*     candles, drops rows holding a missing value, and draws 5/20/60      *)
(*     period moving averages of the close.                                *)
(*   - src/app/pages/simulator.py  investment simulator: projects a lump   *)
(*     sum or a monthly contribution from the stored CAGR of an ETF.       *)
(*   - src/app/pages/overview.py   ETF selection table: the sidebar        *)
(*     filters, the query button, and the frame kept in session state.     *)
(*   - src/database/db_connection.py  get_etf_kline_data,                  *)
(*     get_etf_backtest_metrics and get_etf_overview: the queries that     *)
(*     feed the pages.                                                     *)
(*   - computeMetrics, which fills etf_backtests, is not part of src/ and  *)
(*     is modelled from its specification.                                 *)
(*                                                                         *)
(* Dates are day numbers of the year 2024 (1 = Monday 2024-01-01).         *)
(* A missing value (SQL NULL, or a value pd.to_numeric(errors='coerce')    *)
(* could not parse) is the sentinel NaN; real prices and volumes are >= 0. *)
(* Floating-point amounts are exact rationals <<numerator, denominator>>   *)
(* in lowest terms.                                                        *)
(***************************************************************************)
EXTENDS Integers, Sequences, FiniteSets, TLC

VARIABLES
    prices,        \* etf_daily_prices rows of the selected ETF in the date range, ORDER BY trade_date
    time_scale,    \* the "時間尺度" selectbox
    df_final,      \* the rows handed to the chart (trend.py:99-106)
    ma_value,      \* ma_value per window of ma_days (trend.py:154)
    trend_view,    \* what the trend page shows after the run
    close_col,     \* a close column handed to rolling(window=days).mean()
    days,          \* the window handed to it
    rolling,       \* its result
    ma_pc,         \* "idle" before the rolling mean is taken, "done" after
    backtests,     \* etf_backtests rows of the selected ETF, by label
    run_backtest_metrics,   \* st.session_state.run_backtest_metrics
    investment_type,        \* the "一次性 / 定期定額" radio
    time_period,            \* the "投資時間" selectbox
    investment_amount,      \* the amount number_input
    projection,    \* the figures of the result block (simulator.py:113-131)
    sim_view,      \* the elements the simulator page shows after the run
    etfs,          \* the rows the overview SELECT yields before its filters
    ids_cache,     \* regions whose get_all_etf_ids result st.cache_data holds
    region,        \* the "地區" selectbox
    selected_etf_ids,       \* the "選擇 ETF 代號" multiselect
    ov_time_period,         \* the "顯示時間範圍" selectbox
    sort_by,       \* the "排序欄位" selectbox
    ascending,     \* the "排序方式" radio = "升序"
    ss_keys,       \* the keys present in st.session_state
    trigger_query, \* st.session_state['trigger_query']
    ss_df,         \* st.session_state['df']
    ss_time_period,         \* st.session_state['time_period']
    ss_display_columns,     \* st.session_state['display_columns']
    ov_queries,    \* the lines at which the last run called get_etf_overview
    ov_line,       \* the line at which the last run of overview.py ended
    ov_view,       \* the elements the overview page shows after the run
    series,        \* the adjusted closes of a price series, ascending by date
    computed,      \* what computeMetrics made of the series
    metrics_view,  \* the metrics block of the simulator page (simulator.py:148-159)
    metrics_pc     \* "idle", "computed" once computeMetrics ran, "presented" after the page ran

trendVars == <<prices, time_scale, df_final, ma_value, trend_view>>

maVars == <<close_col, days, rolling, ma_pc>>

simVars == <<backtests, run_backtest_metrics, investment_type, time_period,
             investment_amount, projection, sim_view>>

widgetVars == <<region, selected_etf_ids, ov_time_period, sort_by, ascending>>

sessionVars == <<ss_keys, trigger_query, ss_df, ss_time_period, ss_display_columns>>

ovVars == <<etfs, ids_cache, widgetVars, sessionVars, ov_queries, ov_line, ov_view>>

metricsVars == <<series, computed, metrics_view, metrics_pc>>

vars == <<trendVars, maVars, simVars, ovVars, metricsVars>>

----------------------------------------------------------------------------
(* Bounds of the model *)

MaxBars == 2          \* daily rows in the table
MaxNaNPerBar == 1     \* missing fields in one daily row
MaxCloses == 6        \* length of a close column handed to the rolling mean
MaxWindow == 4        \* windows 1..MaxWindow are tried beside those of ma_days

\* candidate trade dates: Thu 01-25, Fri 01-26, Sat 01-27, Mon 02-12, Fri 03-29
TradeDates == {25, 26, 27, 43, 89}
PriceLevels == {1, 2}
VolumeLevels == {0, 3}

----------------------------------------------------------------------------
(* Values and calendar *)

NaN == -1

Cols == {"open", "high", "low", "close", "volume"}

Range(s) == {s[i] : i \in 1..Len(s)}

RECURSIVE SeqSum(_)
SeqSum(s) == IF s = <<>> THEN 0 ELSE s[1] + SeqSum(Tail(s))

MonthEnds == <<31, 60, 91, 121, 152, 182, 213, 244, 274, 305, 335, 366>>

Weekday(d) == (d - 1) % 7

MonthOf(d) == CHOOSE m \in 1..12 : d <= MonthEnds[m] /\ (m = 1 \/ d > MonthEnds[m - 1])

MonthStart(m) == IF m = 1 THEN 0 ELSE MonthEnds[m - 1]

\* index.strftime('%Y-%m-%d'): year, month, day of month
StrfTime(d) == <<2024, MonthOf(d), d - MonthStart(MonthOf(d))>>

\* 'W-FRI': the Friday on or after d
WeekEnd(d) == d + ((11 - Weekday(d)) % 7)

\* 'M': the last day of d's month
MonthEnd(d) == MonthEnds[MonthOf(d)]

TimeScales == {"Daily", "Weekly", "Monthly"}

----------------------------------------------------------------------------
(* get_etf_kline_data *)

\* the rows of df, or the empty frame when the query raises
get_etf_kline_data(table, dbOk) == IF dbOk THEN table ELSE <<>>

----------------------------------------------------------------------------
(* Resampling: df.resample(rule).agg({...}) followed by dropna() *)

Column(rows, c) == [i \in 1..Len(rows) |-> rows[i][c]]

NonNaN(s) == SelectSeq(s, LAMBDA x : x # NaN)

AggFirst(s) == LET t == NonNaN(s) IN IF t = <<>> THEN NaN ELSE t[1]

\* 'close': 'first' in place of 'last'
AggLastAsFirst(s) == LET t == NonNaN(s) IN IF t = <<>> THEN NaN ELSE t[1]

AggLast(s) == LET t == NonNaN(s) IN IF t = <<>> THEN NaN ELSE t[Len(t)]

AggMax(s) ==
    LET t == NonNaN(s)
    IN IF t = <<>> THEN NaN ELSE CHOOSE x \in Range(t) : \A y \in Range(t) : y <= x

AggMin(s) ==
    LET t == NonNaN(s)
    IN IF t = <<>> THEN NaN ELSE CHOOSE x \in Range(t) : \A y \in Range(t) : x <= y

AggSum(s) == SeqSum(NonNaN(s))

\* the period-end labels of every bin from the first row's to the last row's
WeekLabels(df) ==
    LET lo == WeekEnd(df[1].trade_date)
        hi == WeekEnd(df[Len(df)].trade_date)
    IN [k \in 1..((hi - lo) \div 7 + 1) |-> lo + 7 * (k - 1)]

MonthLabels(df) ==
    LET lo == MonthOf(df[1].trade_date)
        hi == MonthOf(df[Len(df)].trade_date)
    IN [k \in 1..(hi - lo + 1) |-> MonthEnds[lo + k - 1]]

\* the daily rows of the bin that ends at label
WeekRows(df, label) ==
    SelectSeq(df, LAMBDA r : r.trade_date > label - 7 /\ r.trade_date <= label)

MonthRows(df, label) ==
    SelectSeq(df, LAMBDA r : r.trade_date > MonthStart(MonthOf(label)) /\ r.trade_date <= label)

Agg(rows, label) ==
    [trade_date |-> label,
     open   |-> AggFirst(Column(rows, "open")),
     high   |-> AggMax(Column(rows, "high")),
     low    |-> AggMin(Column(rows, "low")),
     close  |-> AggLast(Column(rows, "close")),
     volume |-> AggSum(Column(rows, "volume"))]

ResampleWeekly(df) ==
    LET labels == WeekLabels(df)
    IN [k \in 1..Len(labels) |-> Agg(WeekRows(df, labels[k]), labels[k])]

ResampleMonthly(df) ==
    LET labels == MonthLabels(df)
    IN [k \in 1..Len(labels) |-> Agg(MonthRows(df, labels[k]), labels[k])]

Resample(df, scale) ==
    IF scale = "Weekly" THEN ResampleWeekly(df)
    ELSE IF scale = "Monthly" THEN ResampleMonthly(df)
    ELSE df

HasNaN(r) == \E c \in Cols : r[c] = NaN

DropNa(rows) == SelectSeq(rows, LAMBDA r : ~HasNaN(r))

\* df_final.index = df_final.index.strftime('%Y-%m-%d')
FormatIndex(rows) ==
    [i \in 1..Len(rows) |-> [rows[i] EXCEPT !.trade_date = StrfTime(rows[i].trade_date)]]

----------------------------------------------------------------------------
(* Moving averages: df_final['close'].rolling(window=days).mean() *)

ma_days == <<5, 20, 60>>

NoData == [nodata |-> TRUE, sum |-> 0, n |-> 1]

\* rolling(window=days, min_periods=1): the mean of the closes there are
RollingEntryMinPeriods1(closes, w, i) ==
    LET lo == IF i < w THEN 1 ELSE i - w + 1
    IN [nodata |-> FALSE, sum |-> SeqSum(SubSeq(closes, lo, i)), n |-> i - lo + 1]

\* entry i (1-based) of the rolling mean over window w: the exact mean sum / n
RollingEntry(closes, w, i) ==
    IF i < w \/ \E j \in (i - w + 1)..i : closes[j] = NaN
    THEN NoData
    ELSE [nodata |-> FALSE, sum |-> SeqSum(SubSeq(closes, i - w + 1, i)), n |-> w]

RollingMean(closes, w) == [i \in 1..Len(closes) |-> RollingEntry(closes, w, i)]

MovingAverages(rows) ==
    [k \in 1..Len(ma_days) |-> RollingMean(Column(rows, "close"), ma_days[k])]

NoMA == [k \in 1..Len(ma_days) |-> <<>>]

----------------------------------------------------------------------------
(* The input tables *)

\* a daily bar whose present fields satisfy low <= open, close <= high
Bars ==
    {b \in [open : PriceLevels, high : PriceLevels, low : PriceLevels,
            close : PriceLevels, volume : VolumeLevels] :
        /\ b.low <= b.open /\ b.low <= b.close
        /\ b.open <= b.high /\ b.close <= b.high}

\* b with the fields of miss read as missing
Missing(b, miss) == [c \in Cols |-> IF c \in miss THEN NaN ELSE b[c]]

Masks == {m \in SUBSET Cols : Cardinality(m) <= MaxNaNPerBar}

Fields == {Missing(b, m) : b \in Bars, m \in Masks}

Row(d, f) ==
    [trade_date |-> d, open |-> f.open, high |-> f.high, low |-> f.low,
     close |-> f.close, volume |-> f.volume]

Rows == {Row(d, f) : d \in TradeDates, f \in Fields}

\* tables of at most MaxBars rows, one per date, ascending by date
Tables ==
    UNION {{t \in [1..n -> Rows] : \A i \in 1..(n - 1) : t[i].trade_date < t[i + 1].trade_date}
           : n \in 0..MaxBars}

----------------------------------------------------------------------------
(* The trend page *)

TrendStart ==
    /\ time_scale = "Daily"
    /\ df_final = <<>>
    /\ ma_value = NoMA
    /\ trend_view = "info"

\* a rerun caused by the time-scale selectbox: the button is not pressed
SelectTimeScale(scale) ==
    /\ scale # time_scale
    /\ time_scale' = scale
    /\ df_final' = <<>>
    /\ ma_value' = NoMA
    /\ trend_view' = "info"
    /\ UNCHANGED <<prices, maVars, simVars, ovVars, metricsVars>>

\* the chart drawn without the raw_df.empty guard: the empty frame has no
\* DatetimeIndex to resample and no last row to read
DrawChartNoEmptyGuard(dbOk) ==
    LET raw_df == get_etf_kline_data(prices, dbOk)
        final == FormatIndex(DropNa(Resample(raw_df, time_scale)))
    IN /\ IF raw_df = <<>>
          THEN /\ df_final' = <<>>
               /\ ma_value' = NoMA
               /\ trend_view' = "exception"
          ELSE /\ df_final' = final
               /\ ma_value' = MovingAverages(final)
               /\ trend_view' = IF final = <<>> THEN "exception" ELSE "chart"
       /\ UNCHANGED <<prices, time_scale, maVars, simVars, ovVars, metricsVars>>

\* a rerun caused by the "繪製圖表" button
DrawChart(dbOk) ==
    LET raw_df == get_etf_kline_data(prices, dbOk)
        final == FormatIndex(DropNa(Resample(raw_df, time_scale)))
    IN /\ IF raw_df = <<>>
          THEN /\ df_final' = <<>>
               /\ ma_value' = NoMA
               /\ trend_view' = "error"
          ELSE /\ df_final' = final
               /\ ma_value' = MovingAverages(final)
               \* df_final.iloc[-1] raises IndexError on an empty frame
               /\ trend_view' = IF final = <<>> THEN "exception" ELSE "chart"
       /\ UNCHANGED <<prices, time_scale, maVars, simVars, ovVars, metricsVars>>

TrendNext ==
    \/ \E scale \in TimeScales : SelectTimeScale(scale)
    \/ \E dbOk \in BOOLEAN : DrawChart(dbOk)

----------------------------------------------------------------------------
(* The rolling mean on its own *)

CloseLevels == {0, 1, 2}

CloseColumns == UNION {[1..n -> CloseLevels] : n \in 0..MaxCloses}

Windows == (1..MaxWindow) \cup Range(ma_days)

MAStart ==
    /\ rolling = <<>>
    /\ ma_pc = "idle"

\* one pass of the ma_days loop body
TakeRollingMean ==
    /\ ma_pc = "idle"
    /\ rolling' = RollingMean(close_col, days)
    /\ ma_pc' = "done"
    /\ UNCHANGED <<close_col, days, trendVars, simVars, ovVars, metricsVars>>

MANext == TakeRollingMean

----------------------------------------------------------------------------
(* Exact arithmetic *)

Abs(n) == IF n < 0 THEN -n ELSE n

RECURSIVE GCD(_, _)
GCD(a, b) == IF b = 0 THEN a ELSE GCD(b, a % b)

\* n / d in lowest terms, d > 0
RatNorm(n, d) ==
    LET g == GCD(Abs(n), d)
    IN <<n \div g, d \div g>>

FromInt(n) == <<n, 1>>

RatAdd(x, y) == RatNorm(x[1] * y[2] + y[1] * x[2], x[2] * y[2])

RatSub(x, y) == RatNorm(x[1] * y[2] - y[1] * x[2], x[2] * y[2])

\* cancels across the factors before multiplying
RatMul(x, y) ==
    LET g1 == GCD(Abs(x[1]), y[2])
        g2 == GCD(Abs(y[1]), x[2])
    IN RatNorm((x[1] \div g1) * (y[1] \div g2), (x[2] \div g2) * (y[2] \div g1))

\* x / y for y > 0
RatDiv(x, y) == RatMul(x, <<y[2], y[1]>>)

RECURSIVE RatPow(_, _)
RatPow(x, k) == IF k = 0 THEN <<1, 1>> ELSE RatMul(x, RatPow(x, k - 1))

RatLeq(x, y) == x[1] * y[2] <= y[1] * x[2]

----------------------------------------------------------------------------
(* The investment simulator *)

\* the keys stand for "1年", "3年", "10年"
PERIOD_MAP == [p \in {"1 year", "3 years", "10 years"} |->
                  IF p = "1 year" THEN 1 ELSE IF p = "3 years" THEN 3 ELSE 10]

PERIOD_LABEL_MAP == [p \in {"1 year", "3 years", "10 years"} |->
                        IF p = "1 year" THEN "1y" ELSE IF p = "3 years" THEN "3y" ELSE "10y"]

Periods == DOMAIN PERIOD_MAP

Labels == {"1y", "3y", "10y"}

\* "一次性投入" and "定期定額"
InvestmentTypes == {"LumpSum", "Periodic"}

\* amounts the number_input accepts (min_value=1)
Amounts == {1, 5000, 100000}

\* cagr values stored in etf_backtests: -1.5, -1, -0.5, 0.1
CagrLevels == {<<-3, 2>>, <<-1, 1>>, <<-1, 2>>, <<1, 10>>}

\* the 10y rows hold the negative levels only, which keeps (1 + cagr) ** 10
\* times the largest total within 32-bit integers
CagrsOf(label) ==
    IF label = "10y" THEN {c \in CagrLevels : RatLeq(c, <<0, 1>>)} ELSE CagrLevels

NoRow == [found |-> FALSE, cagr |-> <<0, 1>>, nulls |-> "none"]

\* a row of etf_backtests; nulls tells which numeric columns are NULL:
\* "cagr", or "stat" for one of total_return, volatility, max_drawdown
BacktestRows(label) ==
    {[found |-> TRUE, cagr |-> c, nulls |-> "none"] : c \in CagrsOf(label)}
    \cup {[found |-> TRUE, cagr |-> c, nulls |-> "stat"] : c \in CagrsOf(label)}
    \cup {[found |-> TRUE, cagr |-> <<0, 1>>, nulls |-> "cagr"]}

BacktestTables == {t \in [Labels -> UNION {BacktestRows(l) \cup {NoRow} : l \in Labels}] :
                      \A l \in Labels : t[l] \in BacktestRows(l) \cup {NoRow}}

\* the dict of the first row, or {} when there is none or the query raises
\* a row of zeros handed back when there is no row to read
get_etf_backtest_metricsZeros(table, label, dbOk) ==
    IF dbOk /\ table[label].found THEN table[label]
    ELSE [found |-> TRUE, cagr |-> <<0, 1>>, nulls |-> "none",
          total_return |-> <<0, 1>>, max_drawdown |-> <<0, 1>>]

get_etf_backtest_metrics(table, label, dbOk) ==
    IF dbOk THEN table[label] ELSE NoRow

NoProjection ==
    [total_investment_cost |-> <<0, 1>>, final_value |-> <<0, 1>>,
     total_return_value |-> <<0, 1>>, return_pct_calc |-> <<0, 1>>]

\* the periodic total without the number of years
TotalInvestmentCostOneYear(type, amount, years) ==
    IF type = "Periodic" THEN amount * 12 ELSE amount

TotalInvestmentCost(type, amount, years) ==
    IF type = "Periodic" THEN amount * 12 * years ELSE amount

\* simple interest in place of compounding
FinalValueSimpleInterest(cost, cagr, years) ==
    RatMul(FromInt(cost), RatAdd(FromInt(1), RatMul(cagr, FromInt(years))))

FinalValue(cost, cagr, years) ==
    RatMul(FromInt(cost), RatPow(RatAdd(FromInt(1), cagr), years))

\* the return as a fraction, not a percentage
ProjectionFraction(type, amount, cagr, years) ==
    LET cost == TotalInvestmentCost(type, amount, years)
        final == FinalValue(cost, cagr, years)
        ret == RatSub(final, FromInt(cost))
    IN [total_investment_cost |-> FromInt(cost),
        final_value |-> final,
        total_return_value |-> ret,
        return_pct_calc |-> RatDiv(ret, FromInt(cost))]

Projection(type, amount, cagr, years) ==
    LET cost == TotalInvestmentCost(type, amount, years)
        final == FinalValue(cost, cagr, years)
        ret == RatSub(final, FromInt(cost))
    IN [total_investment_cost |-> FromInt(cost),
        final_value |-> final,
        total_return_value |-> ret,
        return_pct_calc |-> RatMul(RatDiv(ret, FromInt(cost)), FromInt(100))]

\* the warning left out
WarningNever(type) == {}

Warning(type) == IF type = "Periodic" THEN {"warning"} ELSE {}

SimStart ==
    /\ run_backtest_metrics = FALSE
    /\ investment_type = "LumpSum"
    /\ time_period = "1 year"
    /\ projection = NoProjection
    /\ sim_view = {}

\* one run of the script with the widgets at type, period and amount
RunSimulator(type, period, amount, clicked, dbOk) ==
    LET flag == clicked \/ run_backtest_metrics
        years == PERIOD_MAP[period]
        metrics == get_etf_backtest_metrics(backtests, PERIOD_LABEL_MAP[period], dbOk)
    IN /\ investment_type' = type
       /\ time_period' = period
       /\ investment_amount' = amount
       /\ IF ~flag
          THEN /\ run_backtest_metrics' = FALSE
               /\ projection' = NoProjection
               /\ sim_view' = {}
          ELSE IF ~metrics.found
          THEN /\ run_backtest_metrics' = FALSE
               /\ projection' = NoProjection
               /\ sim_view' = {"error"}
          ELSE IF metrics.nulls = "cagr"
          THEN \* 1 + None raises TypeError
               /\ run_backtest_metrics' = TRUE
               /\ projection' = NoProjection
               /\ sim_view' = Warning(type) \cup {"exception"}
          ELSE IF metrics.nulls = "stat"
          THEN \* None * 100 raises TypeError after the result figures
               /\ run_backtest_metrics' = TRUE
               /\ projection' = Projection(type, amount, metrics.cagr, years)
               /\ sim_view' = Warning(type) \cup {"result", "exception"}
          ELSE /\ run_backtest_metrics' = FALSE
               /\ projection' = Projection(type, amount, metrics.cagr, years)
               /\ sim_view' = Warning(type) \cup {"result", "metrics"}
       /\ UNCHANGED <<backtests, trendVars, maVars, ovVars, metricsVars>>

\* a rerun caused by a sidebar widget
ChangeWidgets(type, period, amount, dbOk) ==
    /\ <<type, period, amount>> # <<investment_type, time_period, investment_amount>>
    /\ RunSimulator(type, period, amount, FALSE, dbOk)

\* a rerun caused by the "開始回測" button
StartBacktest(dbOk) ==
    RunSimulator(investment_type, time_period, investment_amount, TRUE, dbOk)

SimNext ==
    \/ \E type \in InvestmentTypes, period \in Periods, amount \in Amounts, dbOk \in BOOLEAN :
           ChangeWidgets(type, period, amount, dbOk)
    \/ \E dbOk \in BOOLEAN : StartBacktest(dbOk)

----------------------------------------------------------------------------
(* get_etf_overview *)

\* Python's None, handed over for "no region filter"
None == "None"

\* the column aliases of the SELECT
OverviewColumns ==
    {"etf_id", "etf_name", "expense_ratio", "inception_date",
     "volume_1y", "volume_3y", "volume_10y",
     "return_1y", "return_3y", "return_10y",
     "volatility_1y", "volatility_3y", "volatility_10y"}

EtfIds == {"0050", "VOO"}

\* the order of the ETF codes as strings
IdRank == [i \in EtfIds |-> IF i = "0050" THEN 1 ELSE 2]

RegionOf == [i \in EtfIds |-> IF i = "VOO" THEN "US" ELSE "TW"]

ExpenseLevels == {1, 2}

EtfRows ==
    {[etf_id |-> i, region |-> RegionOf[i], expense_ratio |-> e] :
        i \in EtfIds, e \in ExpenseLevels}

\* the etfs table: etf_id is its key
EtfTables ==
    {t \in SUBSET EtfRows : \A a \in t : \A b \in t : a.etf_id = b.etf_id => a = b}

\* the IN condition added whatever etf_ids holds
FilteredAlwaysIn(table, reg, etf_ids) ==
    {row \in table :
        /\ (reg # None => row.region = reg)
        /\ row.etf_id \in etf_ids}

\* the WHERE clause: "if region:" and "if etf_ids:" add a condition only for
\* a value that is neither None nor empty
Filtered(table, reg, etf_ids) ==
    {row \in table :
        /\ (reg # None => row.region = reg)
        /\ (etf_ids # {} => row.etf_id \in etf_ids)}

SortKey(row, by) == IF by = "etf_id" THEN IdRank[row.etf_id] ELSE row[by]

InOrder(a, b, asc) == IF asc THEN a <= b ELSE a >= b

\* the row orders a result set can come in
Orderings(rows) ==
    {s \in [1..Cardinality(rows) -> rows] :
        \A i \in DOMAIN s : \A j \in DOMAIN s : i # j => s[i] # s[j]}

\* the frames the call can return (the index 0..n-1 of reset_index is the
\* position in the sequence): the SELECT has no ORDER BY and sort_values
\* uses quicksort, so rows with equal keys come in any order
get_etf_overview(table, reg, etf_ids, by, asc) ==
    LET rows == Filtered(table, reg, etf_ids)
    IN IF rows # {} /\ by \in OverviewColumns
       THEN {s \in Orderings(rows) :
                \A i \in 1..(Len(s) - 1) :
                    InOrder(SortKey(s[i], by), SortKey(s[i + 1], by), asc)}
       ELSE Orderings(rows)

----------------------------------------------------------------------------
(* The overview page *)

Regions == {"NoLimit", "TW"}

RegionValue(r) == IF r = "NoLimit" THEN None ELSE r

\* sorted(df['ETF代號'].tolist()), the options of the multiselect
get_all_etf_ids(table, reg) ==
    {row.etf_id : row \in Filtered(table, reg, {})}

BaseColumns == {"etf_id", "etf_name", "expense_ratio", "inception_date"}

DisplayColumns(period) ==
    BaseColumns \cup
    CASE period = "NoLimit" ->
            {"volume_1y", "volume_3y", "volume_10y", "return_1y", "return_3y",
             "return_10y", "volatility_1y", "volatility_3y", "volatility_10y"}
      [] period = "1 year" -> {"volume_1y", "return_1y", "volatility_1y"}
      [] period = "3 years" -> {"volume_3y", "return_3y", "volatility_3y"}
      [] OTHER -> {"volume_10y", "return_10y", "volatility_10y"}

SortOptions(period) ==
    {"etf_id", "etf_name", "expense_ratio"} \cup
    CASE period = "NoLimit" ->
            {"return_1y", "return_3y", "return_10y", "volatility_1y",
             "volatility_3y", "volatility_10y", "volume_1y", "volume_3y",
             "volume_10y"}
      [] period = "1 year" -> {"return_1y", "volatility_1y", "volume_1y"}
      [] period = "3 years" -> {"return_3y", "volatility_3y", "volume_3y"}
      [] OTHER -> {"return_10y", "volatility_10y", "volume_10y"}

TimePeriods == {"NoLimit", "1 year", "3 years", "10 years"}

\* the choices the model makes in the two selectboxes
PeriodChoices == {"NoLimit", "1 year"}

SortChoices == {"etf_id", "expense_ratio"}

\* the widgets as a first run creates them (index=1, default=None, index=0)
WidgetDefaults ==
    /\ selected_etf_ids' = {}
    /\ ov_time_period' = "NoLimit"
    /\ sort_by' = "etf_id"
    /\ ascending' = TRUE

OverviewStart ==
    /\ ids_cache = {}
    /\ region = "TW"
    /\ selected_etf_ids = {}
    /\ ov_time_period = "NoLimit"
    /\ sort_by = "etf_id"
    /\ ascending = TRUE
    /\ ss_keys = {}
    /\ trigger_query = FALSE
    /\ ss_df = <<>>
    /\ ss_time_period = "NoLimit"
    /\ ss_display_columns = {}
    /\ ov_queries = {}
    /\ ov_line = 0
    /\ ov_view = {}

\* what the database and the cache do during one run: ok12, ok37 and ok141
\* tell whether the database answers the call of get_etf_overview at that
\* line, fresh whether a cached get_all_etf_ids entry is younger than its
\* ttl; an answer no run reads (a call after the one that raised) is left out
DbOutcomes ==
    {db \in [ok12 : BOOLEAN, fresh : BOOLEAN, ok37 : BOOLEAN, ok141 : BOOLEAN] :
        /\ ~db.ok12 => (db.fresh /\ db.ok37 /\ db.ok141)
        /\ ~db.ok37 => db.ok141}

\* one run of overview.py with the widgets at r, sel, tp, sb and asc
OverviewRun(r, sel, tp, sb, asc, clicked, db) ==
    LET ok12 == db.ok12
        ok37 == db.ok37
        ok141 == db.ok141
        hit == r \in ids_cache /\ db.fresh
        first == "trigger_query" \notin ss_keys
        trigger == clicked \/ first \/ trigger_query
    IN IF ~ok12
       THEN \* line 12 raises: no widget is drawn, so each returns to its default
            /\ region' = "TW"
            /\ WidgetDefaults
            /\ ov_queries' = {12}
            /\ ov_line' = 12
            /\ ov_view' = {"exception"}
            /\ UNCHANGED <<etfs, ids_cache, sessionVars>>
       ELSE IF ~hit /\ ~ok37
       THEN \* get_all_etf_ids raises at line 43: nothing is cached
            /\ region' = r
            /\ WidgetDefaults
            /\ ids_cache' = ids_cache \ {r}
            /\ ov_queries' = {12, 37}
            /\ ov_line' = 43
            /\ ov_view' = {"exception"}
            /\ UNCHANGED <<etfs, sessionVars>>
       ELSE /\ region' = r
            /\ selected_etf_ids' = sel
            /\ ov_time_period' = tp
            /\ sort_by' = sb
            /\ ascending' = asc
            /\ ids_cache' = ids_cache \cup {r}
            /\ ss_keys' = ss_keys \cup {"trigger_query", "time_period", "display_columns"}
                                  \cup (IF trigger THEN {"df"} ELSE {})
            /\ ss_time_period' = IF clicked \/ first THEN tp ELSE ss_time_period
            /\ ss_display_columns' =
                  IF clicked \/ first THEN DisplayColumns(tp) ELSE ss_display_columns
            /\ IF trigger /\ ok141
               THEN \E df \in get_etf_overview(etfs, RegionValue(r), sel, sb, asc) :
                       /\ ss_df' = df
                       /\ trigger_query' = FALSE
                       /\ ov_view' = IF df # <<>> THEN {"table"} ELSE {"warning"}
               ELSE IF trigger
               THEN /\ ss_df' = <<>>
                    /\ trigger_query' = TRUE
                    /\ ov_view' = {"error", "warning"}
               ELSE /\ UNCHANGED <<ss_df, trigger_query>>
                    /\ ov_view' = IF "df" \notin ss_keys THEN {"info"}
                                  ELSE IF ss_df # <<>> THEN {"table"}
                                  ELSE {"warning"}
            /\ ov_queries' = {12} \cup (IF hit THEN {} ELSE {37})
                                  \cup (IF trigger THEN {141} ELSE {})
            /\ ov_line' = 396
            /\ UNCHANGED etfs

\* a rerun without any input: the first load of the page, or "Rerun"
Rerun(db) ==
    /\ OverviewRun(region, selected_etf_ids, ov_time_period, sort_by, ascending,
                   FALSE, db)
    /\ UNCHANGED <<trendVars, maVars, simVars, metricsVars>>

\* a rerun caused by one sidebar widget; a multiselect or selectbox whose
\* options changed with it starts again from its default
ChangeFilters(r, sel, tp, sb, asc, db) ==
    /\ ov_line \in {43, 396}
    /\ ov_line = 43 => r # region
    /\ \/ /\ r # region
          /\ <<tp, sb, asc>> = <<ov_time_period, sort_by, ascending>>
          /\ sel = IF get_all_etf_ids(etfs, RegionValue(r)) =
                       get_all_etf_ids(etfs, RegionValue(region))
                   THEN selected_etf_ids ELSE {}
       \/ /\ sel # selected_etf_ids
          /\ sel \subseteq get_all_etf_ids(etfs, RegionValue(region))
          /\ <<r, tp, sb, asc>> = <<region, ov_time_period, sort_by, ascending>>
       \/ /\ tp # ov_time_period
          /\ sb = "etf_id"
          /\ <<r, sel, asc>> = <<region, selected_etf_ids, ascending>>
       \/ /\ sb # sort_by
          /\ sb \in SortOptions(tp)
          /\ <<r, sel, tp, asc>> = <<region, selected_etf_ids, ov_time_period, ascending>>
       \/ /\ asc # ascending
          /\ <<r, sel, tp, sb>> = <<region, selected_etf_ids, ov_time_period, sort_by>>
    /\ OverviewRun(r, sel, tp, sb, asc, FALSE, db)
    /\ UNCHANGED <<trendVars, maVars, simVars, metricsVars>>

\* a rerun caused by the "查詢" button
ClickQuery(db) ==
    /\ ov_line = 396
    /\ OverviewRun(region, selected_etf_ids, ov_time_period, sort_by, ascending,
                   TRUE, db)
    /\ UNCHANGED <<trendVars, maVars, simVars, metricsVars>>

OverviewNext ==
    \/ \E db \in DbOutcomes : Rerun(db)
    \/ \E r \in Regions, sel \in SUBSET EtfIds, tp \in PeriodChoices,
          sb \in SortChoices, asc \in BOOLEAN, db \in DbOutcomes :
          ChangeFilters(r, sel, tp, sb, asc, db)
    \/ \E db \in DbOutcomes : ClickQuery(db)

----------------------------------------------------------------------------
(* Performance metrics: computeMetrics, the etf_backtests row made of its   *)
(* result, and the metrics block of the simulator page that shows the row  *)

MaxSeriesLen == 4

AdjCloseLevels == {50, 100, 150}

PriceSeries == UNION {[1..n -> AdjCloseLevels] : n \in 0..MaxSeriesLen}

NoMetrics ==
    [ok |-> FALSE, error |-> "none", total_return |-> <<0, 1>>, max_drawdown |-> <<0, 1>>]

\* the forward pass over p from bar j on: peak is the running maximum of the
\* bars before j, mdd the lowest drawdown met so far
RECURSIVE DrawdownPass(_, _, _, _)
DrawdownPass(p, j, peak, mdd) ==
    IF j > Len(p) THEN mdd
    ELSE LET running_max == IF p[j] > peak THEN p[j] ELSE peak
             drawdown == RatDiv(FromInt(p[j] - running_max), FromInt(running_max))
         IN DrawdownPass(p, j + 1, running_max,
                         IF RatLeq(drawdown, mdd) THEN drawdown ELSE mdd)

\* the running peak never raised above the first bar
max_drawdownFirstPeak(p) ==
    LET dd(j) == RatDiv(FromInt(p[j] - p[1]), FromInt(p[1]))
        lowest == CHOOSE j \in DOMAIN p : \A k \in DOMAIN p : RatLeq(dd(j), dd(k))
    IN IF RatLeq(dd(lowest), <<0, 1>>) THEN dd(lowest) ELSE <<0, 1>>

max_drawdown(p) == DrawdownPass(p, 1, p[1], <<0, 1>>)

total_return(p) == RatSub(RatDiv(FromInt(p[Len(p)]), FromInt(p[1])), <<1, 1>>)

\* cagr, volatility and sharpe_ratio take roots and are left out
computeMetrics(p) ==
    IF Len(p) < 2
    THEN [NoMetrics EXCEPT !.error = "InsufficientDataError"]
    ELSE [ok |-> TRUE, error |-> "none", total_return |-> total_return(p),
          max_drawdown |-> max_drawdown(p)]

\* the etf_backtests row of the series: there is one only for a computed value
StoredRow(m) ==
    IF m.ok
    THEN [found |-> TRUE, cagr |-> <<0, 1>>, nulls |-> "none",
          total_return |-> m.total_return, max_drawdown |-> m.max_drawdown]
    ELSE NoRow

NoMetricsView ==
    [shown |-> FALSE, db_total_return_pct |-> <<0, 1>>, db_max_drawdown_pct |-> <<0, 1>>]

MetricsStart ==
    /\ computed = NoMetrics
    /\ metrics_view = NoMetricsView
    /\ metrics_pc = "idle"

ComputeMetrics ==
    /\ metrics_pc = "idle"
    /\ computed' = computeMetrics(series)
    /\ metrics_pc' = "computed"
    /\ UNCHANGED <<series, metrics_view, trendVars, maVars, simVars, ovVars>>

\* a simulator run for the "1年" row of the series, as far as its metrics
\* block goes
PresentMetrics(dbOk) ==
    LET row == get_etf_backtest_metrics([l \in Labels |-> StoredRow(computed)], "1y", dbOk)
    IN /\ metrics_pc = "computed"
       /\ metrics_view' =
             IF ~row.found THEN NoMetricsView
             ELSE [shown |-> TRUE,
                   db_total_return_pct |-> RatMul(row.total_return, FromInt(100)),
                   db_max_drawdown_pct |-> RatMul(row.max_drawdown, FromInt(100))]
       /\ metrics_pc' = "presented"
       /\ UNCHANGED <<series, computed, trendVars, maVars, simVars, ovVars>>

MetricsNext ==
    \/ ComputeMetrics
    \/ \E dbOk \in BOOLEAN : PresentMetrics(dbOk)

----------------------------------------------------------------------------
(* Specifications: one per page, the other pages at rest *)

\* the trend page over every table of daily rows
Init ==
    /\ prices \in Tables
    /\ TrendStart
    /\ close_col = <<>> /\ days = 1 /\ MAStart
    /\ backtests = [l \in Labels |-> NoRow] /\ investment_amount = 1 /\ SimStart
    /\ etfs = {} /\ OverviewStart
    /\ series = <<>> /\ MetricsStart

Spec == Init /\ [][TrendNext]_vars

\* the rolling mean over every close column and window
MAInit ==
    /\ close_col \in CloseColumns
    /\ days \in Windows
    /\ MAStart
    /\ prices = <<>> /\ TrendStart
    /\ backtests = [l \in Labels |-> NoRow] /\ investment_amount = 1 /\ SimStart
    /\ etfs = {} /\ OverviewStart
    /\ series = <<>> /\ MetricsStart

MASpec == MAInit /\ [][MANext]_vars

\* the simulator over every etf_backtests table
SimInit ==
    /\ backtests \in BacktestTables
    /\ investment_amount \in Amounts
    /\ SimStart
    /\ prices = <<>> /\ TrendStart
    /\ close_col = <<>> /\ days = 1 /\ MAStart
    /\ etfs = {} /\ OverviewStart
    /\ series = <<>> /\ MetricsStart

SimSpec == SimInit /\ [][SimNext]_vars

\* the overview page over every etfs table
OverviewInit ==
    /\ etfs \in EtfTables
    /\ OverviewStart
    /\ prices = <<>> /\ TrendStart
    /\ close_col = <<>> /\ days = 1 /\ MAStart
    /\ backtests = [l \in Labels |-> NoRow] /\ investment_amount = 1 /\ SimStart
    /\ series = <<>> /\ MetricsStart

OverviewSpec == OverviewInit /\ [][OverviewNext]_vars

\* computeMetrics over every price series
MetricsInit ==
    /\ series \in PriceSeries
    /\ MetricsStart
    /\ prices = <<>> /\ TrendStart
    /\ close_col = <<>> /\ days = 1 /\ MAStart
    /\ backtests = [l \in Labels |-> NoRow] /\ investment_amount = 1 /\ SimStart
    /\ etfs = {} /\ OverviewStart

MetricsSpec == MetricsInit /\ [][MetricsNext]_vars

----------------------------------------------------------------------------
(* Properties of the trend page *)

Resampled == trend_view = "chart" /\ time_scale \in {"Weekly", "Monthly"}

PeriodEnd(d) == IF time_scale = "Weekly" THEN WeekEnd(d) ELSE MonthEnd(d)

\* the daily bars whose period ends on the date that row is labelled with
GroupOf(row) ==
    SelectSeq(prices, LAMBDA r : StrfTime(PeriodEnd(r.trade_date)) = row.trade_date)

Present(rows, c) == {i \in 1..Len(rows) : rows[i][c] # NaN}

\* v is the value of column c in the earliest (latest) bar of rows that has one
IsFirstPresent(rows, c, v) ==
    \E i \in Present(rows, c) : v = rows[i][c] /\ \A j \in Present(rows, c) : i <= j

IsLastPresent(rows, c, v) ==
    \E i \in Present(rows, c) : v = rows[i][c] /\ \A j \in Present(rows, c) : j <= i

IsMaxPresent(rows, c, v) ==
    /\ \E i \in Present(rows, c) : v = rows[i][c]
    /\ \A j \in Present(rows, c) : rows[j][c] <= v

IsMinPresent(rows, c, v) ==
    /\ \E i \in Present(rows, c) : v = rows[i][c]
    /\ \A j \in Present(rows, c) : v <= rows[j][c]

RECURSIVE SumOver(_, _, _)
SumOver(rows, c, idx) ==
    IF idx = {} THEN 0
    ELSE LET i == CHOOSE k \in idx : TRUE
         IN rows[i][c] + SumOver(rows, c, idx \ {i})

PresentVolume(rows) == SumOver(rows, "volume", Present(rows, "volume"))

C2_VolumeConservation ==
    Resampled =>
        SumOver(df_final, "volume", 1..Len(df_final)) = PresentVolume(prices)

\* C3: the weekly / monthly output has exactly one row for each period that
\* holds a daily bar, none for a period without bars, in strictly ascending
\* order of period end.
C3_OneRowPerPeriod ==
    Resampled =>
        /\ \A j \in 1..Len(prices) :
               \E i \in 1..Len(df_final) :
                   df_final[i].trade_date = StrfTime(PeriodEnd(prices[j].trade_date))
        /\ \A i \in 1..Len(df_final) : GroupOf(df_final[i]) # <<>>
        /\ \A i \in 1..(Len(df_final) - 1) :
               \E j, k \in 1..Len(prices) :
                   /\ df_final[i].trade_date = StrfTime(PeriodEnd(prices[j].trade_date))
                   /\ df_final[i + 1].trade_date = StrfTime(PeriodEnd(prices[k].trade_date))
                   /\ PeriodEnd(prices[j].trade_date) < PeriodEnd(prices[k].trade_date)

\* C4: with the daily time scale the rows drawn are the rows read: same
\* count, same values, same order.
C4_DailyIdentity ==
    (trend_view = "chart" /\ time_scale = "Daily") => df_final = FormatIndex(prices)

\* C11: no failure is swallowed: a query that fails on a table holding rows
\* never leaves the page showing what a query that found no rows shows (the
\* "data not found" notice over an empty frame).
C11_FailureSurfaced ==
    [][(prices # <<>> /\ DrawChart(FALSE)) =>
          ~(trend_view' = "error" /\ df_final' = <<>>)]_vars

\* C12 as stated: an empty result is charted as an empty frame and the run
\* signals no error.
C12_AsStated ==
    (prices = <<>> /\ trend_view # "info") =>
        (df_final = <<>> /\ trend_view \notin {"error", "exception"})

\* C12: the query of a table without rows returns the empty frame without
\* raising; the page then resamples nothing, keeps the empty frame, and shows
\* the "data not found" notice in place of a chart, at every time scale; no
\* exception is raised.
C12_EmptyInput ==
    (prices = <<>> /\ trend_view # "info") =>
        /\ get_etf_kline_data(prices, TRUE) = <<>>
        /\ df_final = <<>>
        /\ ma_value = NoMA
        /\ trend_view = "error"

C12_Witness ==
    /\ prices = <<>>
    /\ time_scale = "Weekly"
    /\ trend_view = "error"

----------------------------------------------------------------------------
(* Properties of the rolling mean *)

RECURSIVE SumAt(_, _)
SumAt(s, idx) ==
    IF idx = {} THEN 0
    ELSE LET i == CHOOSE k \in idx : TRUE
         IN s[i] + SumAt(s, idx \ {i})

\* C5: the moving average is as long as the close column; its first
\* window - 1 entries are "no data"; every later entry i is the arithmetic
\* mean of the closes i - window + 1 .. i, so the entry at the window-th
\* position is the mean of the first window closes.
C5_MovingAverage ==
    ma_pc = "done" =>
        /\ Len(rolling) = Len(close_col)
        /\ \A i \in 1..Len(close_col) :
               IF i < days
               THEN rolling[i].nodata
               ELSE /\ ~rolling[i].nodata
                    /\ rolling[i].n = days
                    /\ rolling[i].sum = SumAt(close_col, (i - days + 1)..i)

\* a 5-period average over six closes: four entries without data, then two
\* different means, the first one zero
C5_Witness ==
    /\ ma_pc = "done"
    /\ days = 5
    /\ Len(close_col) = 6
    /\ rolling[4].nodata
    /\ ~rolling[5].nodata /\ rolling[5].sum = 0
    /\ ~rolling[6].nodata /\ rolling[6].sum = 2

----------------------------------------------------------------------------
(* Properties of the simulator *)

ResultShown == "result" \in sim_view

Years == PERIOD_MAP[time_period]

Cagr == backtests[PERIOD_LABEL_MAP[time_period]].cagr

\* (1 + cagr) ^ years as one fraction
Growth(c, y) == RatNorm((c[1] + c[2]) ^ y, c[2] ^ y)

\* C6: a lump-sum projection has total_invested = amount and
\* final_value = amount * (1 + cagr) ^ years for the stored cagr of the
\* selected period; amount 100000 at cagr 0.10 over 3 years gives 133100.
C6_LumpSum ==
    (ResultShown /\ investment_type = "LumpSum") =>
        /\ projection.total_investment_cost = FromInt(investment_amount)
        /\ projection.final_value = RatMul(FromInt(investment_amount), Growth(Cagr, Years))
        /\ (investment_amount = 100000 /\ Cagr = <<1, 10>> /\ Years = 3)
               => projection.final_value = <<133100, 1>>

C6_Witness ==
    /\ ResultShown
    /\ investment_type = "LumpSum"
    /\ investment_amount = 100000
    /\ Cagr = <<1, 10>>
    /\ Years = 3
    /\ projection.final_value = <<133100, 1>>

\* C7: a periodic projection has total_invested = amount * 12 * years and
\* final_value = total_invested * (1 + cagr) ^ years.
C7_Periodic ==
    (ResultShown /\ investment_type = "Periodic") =>
        /\ projection.total_investment_cost = FromInt(investment_amount * 12 * Years)
        /\ projection.final_value =
               RatMul(FromInt(investment_amount * 12 * Years), Growth(Cagr, Years))

C7_Witness ==
    /\ ResultShown
    /\ investment_type = "Periodic"
    /\ investment_amount = 5000
    /\ Cagr = <<1, 10>>
    /\ Years = 3
    /\ projection.total_investment_cost = <<180000, 1>>
    /\ projection.final_value = <<239580, 1>>

\* C8: periodic result figures are never shown without the approximation
\* warning, and the warning is never shown in lump-sum mode.
C8_WarningWithPeriodic ==
    /\ (ResultShown /\ investment_type = "Periodic") => "warning" \in sim_view
    /\ investment_type = "LumpSum" => "warning" \notin sim_view

C8_Witness ==
    /\ ResultShown
    /\ investment_type = "Periodic"
    /\ "warning" \in sim_view

\* C9: in both modes return_pct = (final_value - total_invested) /
\* total_invested * 100 and the return amount is final_value - total_invested.
C9_ReturnPct ==
    ResultShown =>
        LET gain == RatSub(projection.final_value, projection.total_investment_cost)
        IN /\ projection.total_return_value = gain
           /\ RatDiv(projection.return_pct_calc, FromInt(100))
                  = RatDiv(gain, projection.total_investment_cost)

\* a 3-year lump sum of 100000 at cagr 0.10: gain 33100, 33.1 %
C9_Witness ==
    /\ ResultShown
    /\ projection.total_investment_cost = <<100000, 1>>
    /\ projection.total_return_value = <<33100, 1>>
    /\ projection.return_pct_calc = <<331, 10>>

\* C10: no projection figures are produced when amount <= 0, years <= 0 or
\* cagr <= -1.
C10_RejectsInvalid ==
    ResultShown =>
        /\ investment_amount > 0
        /\ Years > 0
        /\ ~RatLeq(Cagr, <<-1, 1>>)

\* C18: results are shown only in a run in which the button was clicked: a
\* rerun caused by changing an input widget shows no projection and no
\* metrics, because every run that reaches the result block ends with
\* run_backtest_metrics = FALSE.
C18_ResultsNeedClick ==
    [][(\E type \in InvestmentTypes, period \in Periods, amount \in Amounts,
           dbOk \in BOOLEAN : ChangeWidgets(type, period, amount, dbOk)) =>
          /\ "result" \notin sim_view'
          /\ "metrics" \notin sim_view'
          /\ run_backtest_metrics' = FALSE]_vars

----------------------------------------------------------------------------
(* Properties of the overview page *)

\* the last run executed the query block and the query answered
Queried == ov_line = 396 /\ 141 \in ov_queries /\ "error" \notin ov_view

\* the ETF codes of the stored frame
StoredIds == {ss_df[i].etf_id : i \in DOMAIN ss_df}

\* the ETF codes of the selected region
RegionIds ==
    {row.etf_id : row \in {x \in etfs : region # "NoLimit" => x.region = region}}

IsSorted(df, by, asc) ==
    \A i \in 1..(Len(df) - 1) :
        IF asc THEN SortKey(df[i], by) <= SortKey(df[i + 1], by)
        ELSE SortKey(df[i], by) >= SortKey(df[i + 1], by)

\* C13: every result shown is a function of the inputs of the run that shows
\* it: the table on display is a result of get_etf_overview for the current
\* selections and data, never one left in session state by an earlier run.
C13_PureFunctionOfInputs ==
    "table" \in ov_view =>
        ss_df \in get_etf_overview(etfs, RegionValue(region), selected_etf_ids,
                                   sort_by, ascending)

C17_DisplayedOrder ==
    "table" \in ov_view =>
        /\ sort_by \in OverviewColumns
        /\ IsSorted(ss_df, sort_by, ascending)

\* the table on display
Displayed == IF "table" \in ov_view THEN ss_df ELSE <<>>

\* a run in which the query button is not clicked
RunWithoutClick ==
    \/ \E db \in DbOutcomes : Rerun(db)
    \/ \E r \in Regions, sel \in SUBSET EtfIds, tp \in PeriodChoices,
          sb \in SortChoices, asc \in BOOLEAN, db \in DbOutcomes :
          ChangeFilters(r, sel, tp, sb, asc, db)

\* C19: once a query has succeeded, a run without a click of the query
\* button calls get_etf_overview nowhere, leaves session_state['df'],
\* ['time_period'] and ['display_columns'] as they were, and leaves the
\* table on display as it was.
C19_NoQueryWithoutClick ==
    [][("trigger_query" \in ss_keys /\ ~trigger_query /\ RunWithoutClick) =>
          /\ ov_queries' = {}
          /\ UNCHANGED <<ss_df, ss_time_period, ss_display_columns>>
          /\ Displayed' = Displayed]_vars

\* C20: a run whose query raises stores the empty frame and leaves
\* trigger_query True; while trigger_query is True every run executes the
\* query again, clicked or not; a run whose query answers leaves it False.
C20_RetryUntilSuccess ==
    [][/\ "error" \in ov_view' => (ss_df' = <<>> /\ trigger_query')
       /\ ("trigger_query" \in ss_keys /\ trigger_query) => 141 \in ov_queries'
       /\ (141 \in ov_queries' /\ "error" \notin ov_view') => ~trigger_query']_vars

\* C21: whenever a run queries and displays a table, the stored time-range
\* label and column set are those selected in that same run, so the data of
\* the table and its columns and label come from one widget selection (runs
\* that display without querying leave all three as the querying run stored
\* them).
C21_ColumnsOfQueryingRun ==
    (Queried /\ "table" \in ov_view) =>
        /\ ss_time_period = ov_time_period
        /\ ss_display_columns = DisplayColumns(ov_time_period)

----------------------------------------------------------------------------
(* Properties of the performance metrics *)

\* the highest of the bars 1..j
Peak(p, j) == CHOOSE m \in {p[i] : i \in 1..j} : \A i \in 1..j : p[i] <= m

DrawdownAt(p, j) == RatDiv(FromInt(p[j] - Peak(p, j)), FromInt(Peak(p, j)))

LowestDrawdown(p) ==
    CHOOSE d \in {DrawdownAt(p, j) : j \in DOMAIN p} :
        \A j \in DOMAIN p : RatLeq(d, DrawdownAt(p, j))

StrictlyIncreasing(p) == \A j \in 1..(Len(p) - 1) : p[j] < p[j + 1]

C15_MaxDrawdown ==
    computed.ok =>
        /\ computed.max_drawdown = LowestDrawdown(series)
        /\ RatLeq(computed.max_drawdown, <<0, 1>>)
        /\ StrictlyIncreasing(series) => computed.max_drawdown = <<0, 1>>
        /\ series = <<100, 50, 100>> => computed.max_drawdown = <<-1, 2>>

C15_Witness ==
    /\ series = <<100, 50, 100>>
    /\ computed.ok
    /\ computed.max_drawdown = <<-1, 2>>
    /\ metrics_view.shown
    /\ metrics_view.db_max_drawdown_pct = <<-50, 1>>

====
